---- MODULE Spec2Model ----
(***************************************************************************)
(* patch-picasso: a CLI that posts one generated image comment on a pull   *)
(* request.  The repository holds two entry points:                        *)
(*   "index"    : src/src/index.ts      (base64 becomes a data: URL,       *)
(*                                       no image at all is fatal)         *)
(*   "fallback" : src/unnamed/part_000  (base64 is committed to the PR     *)
(*                                       head branch, no image is soft)    *)
(* A run of main() is a sequence of awaited network calls; every await is  *)
(* a point where another run (another workflow job) may interleave.  Each  *)
(* action below is the code from one await up to the next.                 *)
(*                                                                         *)
(* Text is abstracted to [id, len]: which string it is a prefix of, and    *)
(* how many characters of it are kept.  Repository strings are sequences   *)
(* of characters because parseRepo splits them.                            *)
(***************************************************************************)
EXTENDS Integers, Sequences, FiniteSets, TLC

\* ------------------------------------------------------------------ bounds

\* longest repository string tried by context resolution
MaxRepoLen == 4
\* runs that may be started one after another on the PR
MaxRuns == 2
\* pushes to the default branch while uploads are under way
MaxPushes == 1

\* ------------------------------------------------------- program constants

\* '<!-- patch-picasso -->'.length
MarkerLen == 22
\* '<sub>Generated by patch-picasso using Vercel AI SDK and OpenAI.</sub>'.length
FooterLen == 69
\* '![Funny PR Image]('.length
ImageOpenLen == 18
\* '(Generated image unavailable)'.length
PlaceholderLen == 29
\* 'data:image/png;base64,'.length
DataPrefixLen == 22
\* 'https://raw.githubusercontent.com/'.length
RawPrefixLen == 34
\* '.github/patch-picasso/'.length
ImgDirLen == 22
\* String(Date.now()).length
TimestampLen == 13
\* '.png'.length
PngLen == 4
\* 'A lighthearted take on this PR'.length
DefaultCaptionLen == 30
\* 'refs/heads/'.length
RefsHeadsLen == 11
\* comments?per_page=100
PerPage == 100
\* .slice(0, 800)
PromptMax == 800
\* .slice(0, 200)
CaptionMax == 200
\* caption.slice(0, 500) at composition time
CaptionRecut == 500
\* GitHub's limit on one comment body
CommentMax == 65536

\* ----------------------------------------------------------------- helpers

Min(a, b) == IF a < b THEN a ELSE b

Procs == {"r1", "r2"}

\* the endpoints the program can call
CallNames ==
  { "GET pr", "GET files", "GET comments", "generateText", "images.generate",
    "PUT contents", "POST comment",
    "GET branch", "GET repo", "GET default branch", "POST git/refs", "GET contents" }

\* ------------------------------------------------------------------ strings

Empty == [id |-> "", len |-> 0]

Str(id, n) == IF n = 0 THEN Empty ELSE [id |-> id, len |-> n]

\* s.slice(0, n) / s.substring(0, n)
Slice(s, n) == Str(s.id, Min(s.len, n))

DefaultCaption == Str("default", DefaultCaptionLen)

\* ------------------------------------------------------ context resolution

Chars == {"a", "/"}

RepoStrings == UNION { [1..n -> Chars] : n \in 0..MaxRepoLen }

HasSlash(s) == \E i \in 1..Len(s) : s[i] = "/"

FirstSlash(s) == CHOOSE i \in 1..Len(s) : s[i] = "/" /\ \A j \in 1..(i-1) : s[j] # "/"

\* repo.split('/')
RECURSIVE Split(_)
Split(s) ==
  IF ~HasSlash(s) THEN <<s>>
  ELSE LET i == FirstSlash(s)
       IN <<SubSeq(s, 1, i - 1)>> \o Split(SubSeq(s, i + 1, Len(s)))

\* const [owner, name] = repo.split('/'); throws when either is empty or missing
parseRepo(repo) ==
  LET parts == Split(repo)
      owner == parts[1]
      name  == IF Len(parts) >= 2 THEN parts[2] ELSE <<>>
  IN IF owner = <<>> \/ name = <<>>
     THEN [ok |-> FALSE, owner |-> <<>>, name |-> <<>>]
     ELSE [ok |-> TRUE, owner |-> owner, name |-> name]

NoErr == [kind |-> "none", name |-> "", str |-> <<>>]

NoCfg ==
  [githubToken |-> FALSE, openaiKey |-> FALSE, argsRepo |-> <<>>, envRepo |-> <<>>,
   argsPr |-> 0, argsPrNumber |-> 0, eventPr |-> 0]

\* one invocation: the two secrets, --repo, GITHUB_REPOSITORY, --pr, --pr-number and
\* the event payload's pull_request.number (0 and <<>> stand for absent)
Cfg(gt, ok, ar, er, ap, apn, ev) ==
  [githubToken |-> gt, openaiKey |-> ok, argsRepo |-> ar, envRepo |-> er,
   argsPr |-> ap, argsPrNumber |-> apn, eventPr |-> ev]

\* a || b on strings
OrStr(a, b) == IF a # <<>> THEN a ELSE b

\* a || b on numbers
OrNum(a, b) == IF a # 0 THEN a ELSE b

\* main(), from its first line to the first network call
ResolveContext(cfg) ==
  LET repoArg  == OrStr(cfg.argsRepo, cfg.envRepo)
      parsed   == parseRepo(repoArg)
      fromArgs == OrNum(cfg.argsPr, cfg.argsPrNumber)
      prNumber == IF fromArgs = 0 /\ cfg.eventPr # 0 THEN cfg.eventPr ELSE fromArgs
      fail(e)  == [ok |-> FALSE, owner |-> <<>>, repo |-> <<>>, prNumber |-> 0, stderr |-> e]
  IN IF ~cfg.githubToken
       THEN fail([kind |-> "missing_env", name |-> "GITHUB_TOKEN", str |-> <<>>])
     ELSE IF ~cfg.openaiKey
       THEN fail([kind |-> "missing_env", name |-> "OPENAI_API_KEY", str |-> <<>>])
     ELSE IF repoArg = <<>>
       THEN fail([kind |-> "missing_repo", name |-> "", str |-> <<>>])
     ELSE IF ~parsed.ok
       THEN fail([kind |-> "invalid_repo", name |-> "", str |-> repoArg])
     ELSE IF prNumber = 0
       THEN fail([kind |-> "missing_pr", name |-> "", str |-> <<>>])
     ELSE [ok |-> TRUE, owner |-> parsed.owner, repo |-> parsed.name,
           prNumber |-> prNumber, stderr |-> NoErr]

\* ------------------------------------------------- the generator's text

Absent == [t |-> "absent", len |-> 0]

\* the text returned by generateText: what JSON.parse makes of it ("prose" does
\* not parse), the raw text, and, for an object, its two keys
Text(shape, rawLen, ip, cap) ==
  [shape |-> shape, raw |-> Str("raw", rawLen), imagePrompt |-> ip, caption |-> cap]

NoText == Text("none", 0, Absent, Absent)

\* JSON.parse(structured): throws on text that is not JSON
JsonParse(structured) ==
  IF structured.shape = "prose"
  THEN [threw |-> TRUE, t |-> "undefined", imagePrompt |-> Absent, caption |-> Absent]
  ELSE [threw |-> FALSE, t |-> structured.shape,
        imagePrompt |-> IF structured.shape = "object" THEN structured.imagePrompt ELSE Absent,
        caption |-> IF structured.shape = "object" THEN structured.caption ELSE Absent]

\* String(v || '') for the value of key id
StringOrEmpty(v, id) ==
  IF v.t = "str" /\ v.len > 0 THEN Str(id, v.len)
  ELSE IF v.t = "num" /\ v.len > 0 THEN Str("digits", v.len)
  ELSE Empty

\* a faulty variant: it falls back whenever a key is missing
ParseStructured_FallbackOnMissingKey(structured) ==
  LET parsed == JsonParse(structured)
  IN IF parsed.threw \/ parsed.t = "null"
        \/ parsed.imagePrompt.t = "absent" \/ parsed.caption.t = "absent"
     THEN [imagePrompt |-> Slice(structured.raw, PromptMax), caption |-> DefaultCaption]
     ELSE [imagePrompt |-> Slice(StringOrEmpty(parsed.imagePrompt, "imagePrompt"), PromptMax),
           caption |-> Slice(StringOrEmpty(parsed.caption, "caption"), CaptionMax)]

\* the try/catch around JSON.parse: reading a key of null throws as well
ParseStructured(structured) ==
  LET parsed == JsonParse(structured)
  IN IF parsed.threw \/ parsed.t = "null"
     THEN [imagePrompt |-> Slice(structured.raw, PromptMax), caption |-> DefaultCaption]
     ELSE [imagePrompt |-> Slice(StringOrEmpty(parsed.imagePrompt, "imagePrompt"), PromptMax),
           caption |-> Slice(StringOrEmpty(parsed.caption, "caption"), CaptionMax)]

\* ------------------------------------------------------------- image URLs

\* a branch name: its length and how many of its characters encodeURIComponent escapes
Ref(n, esc) == [len |-> n, esc |-> esc]

NoRef == Ref(0, 0)

\* encodeURIComponent(ref).length: an escaped character becomes %XX
EncodedLen(ref) == ref.len + 2 * ref.esc

NoPath == [pr |-> 0, len |-> 0]

\* String(n).length
Digits(n) == IF n < 10 THEN 1 ELSE IF n < 100 THEN 2 ELSE 3

\* `.github/patch-picasso/${prNumber}-${Date.now()}.png`
ImgPath(prNumber) ==
  [pr |-> prNumber, len |-> ImgDirLen + Digits(prNumber) + 1 + TimestampLen + PngLen]

Url(kind, n, owner, repo, branch, path) ==
  [kind |-> kind, len |-> n, owner |-> owner, repo |-> repo, branch |-> branch, path |-> path]

NoUrl == Url("none", 0, <<>>, <<>>, NoRef, NoPath)

\* a URL handed back by a service: image.data[0].url, or the write's download_url
Given(kind, n) == IF n = 0 THEN NoUrl ELSE Url(kind, n, <<>>, <<>>, NoRef, NoPath)

\* `data:image/png;base64,${b64}`
DataUrl(b64) == Url("data", DataPrefixLen + b64, <<>>, <<>>, NoRef, NoPath)

\* `https://raw.githubusercontent.com/${owner}/${repo}/${encodeURIComponent(headRef)}/${imgPath}`
RawUrl(owner, repo, headRef, imgPath) ==
  Url("raw", RawPrefixLen + Len(owner) + 1 + Len(repo) + 1 + EncodedLen(headRef) + 1 + imgPath.len,
      owner, repo, headRef, imgPath)

\* the response of images.generate: the lengths of data[0].url and data[0].b64_json
Image(url, b64) == [url |-> url, b64 |-> b64]

NoImage == Image(0, 0)

\* a faulty variant: it always builds the raw URL
DeriveImageUrl_IgnoreResponse(downloadUrl, owner, repo, headRef, imgPath) ==
  RawUrl(owner, repo, headRef, imgPath)

\* res?.content?.download_url || the raw-content template
DeriveImageUrl(downloadUrl, owner, repo, headRef, imgPath) ==
  IF downloadUrl.kind # "none" THEN downloadUrl
  ELSE RawUrl(owner, repo, headRef, imgPath)

\* index.ts: the URL, else the base64 as a data: URL, else nothing (and the run throws)
InlineImageUrl(image) ==
  IF image.url > 0 THEN Given("direct", image.url)
  ELSE IF image.b64 > 0 THEN DataUrl(image.b64)
  ELSE NoUrl

\* b64 && headRepoFull && baseRepoFull && headRepoFull === baseRepoFull && headRef
CanUpload(image, pr) ==
  /\ image.b64 > 0
  /\ pr.headRepo # ""
  /\ pr.baseRepo # ""
  /\ pr.headRepo = pr.baseRepo
  /\ pr.headRef.len > 0

\* ---------------------------------------------------------------- comments

\* a comment body: whether it holds the marker, its caption, its image reference,
\* whether it holds the placeholder text, and its length
Comment(marker, caption, image, placeholder, n) ==
  [marker |-> marker, caption |-> caption, image |-> image, placeholder |-> placeholder,
   len |-> n]

NoBody == Comment(FALSE, Empty, NoUrl, FALSE, 0)

\* a comment somebody else wrote
Other == Comment(FALSE, Empty, NoUrl, FALSE, 5)

\* an earlier run's comment
RECURSIVE Sum(_)
Sum(ns) == IF ns = <<>> THEN 0 ELSE ns[1] + Sum(Tail(ns))

\* parts.join('\n').length
JoinLen(ns) == Sum(ns) + (Len(ns) - 1)

\* caption ? `> ${caption}\n` : ''
CaptionPartLen(caption) == IF caption.len > 0 THEN 2 + caption.len + 1 ELSE 0

\* index.ts: the body always carries the image reference
ComposeInline(caption, imageUrl) ==
  Comment(TRUE, caption, imageUrl, FALSE,
          JoinLen(<<MarkerLen, 1, CaptionPartLen(caption), 0,
                    ImageOpenLen + imageUrl.len + 1, 0, FooterLen>>))

\* a faulty variant: it writes the image reference even without a URL
ComposeFallback_AlwaysImage(caption0, imageUrl) ==
  LET caption == Slice(caption0, CaptionRecut)
  IN Comment(TRUE, caption, Url("raw", imageUrl.len, <<>>, <<>>, NoRef, NoPath), FALSE,
             JoinLen(<<MarkerLen, 1, CaptionPartLen(caption),
                       1 + ImageOpenLen + imageUrl.len + 1 + 1, FooterLen>>))

\* part_000: the caption is cut again; without a URL the placeholder stands in
ComposeFallback(caption0, imageUrl) ==
  LET caption == Slice(caption0, CaptionRecut)
      hasUrl  == imageUrl.kind # "none"
  IN Comment(TRUE, caption, imageUrl, ~hasUrl,
             JoinLen(<<MarkerLen, 1, CaptionPartLen(caption),
                       IF hasUrl THEN 1 + ImageOpenLen + imageUrl.len + 1 + 1
                       ELSE 1 + PlaceholderLen + 1,
                       FooterLen>>))

\* an earlier run's comment
Earlier == ComposeFallback(DefaultCaption, NoUrl)

\* typeof c.body === 'string' && c.body.includes(MARKER)
Includes(body) == body.marker

\* a faulty variant: it looks at the newest fetched comment only
FindExisting_LastOnly(fetched) == fetched # <<>> /\ Includes(fetched[Len(fetched)])

\* comments.find(...): is there a comment with the marker among those fetched
FindExisting(fetched) == \E i \in 1..Len(fetched) : Includes(fetched[i])

\* GET issues/{n}/comments?per_page=100: the first page, oldest first
ListComments(cs) == SubSeq(cs, 1, Min(PerPage, Len(cs)))

\* a faulty variant: it replaces the marker comment that is already there
CreateComment_Upsert(cs, body) ==
  IF \E i \in 1..Len(cs) : cs[i].marker
  THEN [i \in 1..Len(cs) |-> IF cs[i].marker THEN body ELSE cs[i]]
  ELSE Append(cs, body)

\* POST issues/{n}/comments: a new comment, never an update in place
CreateComment(cs, body) == Append(cs, body)

MarkerCount(cs) == Cardinality({ i \in 1..Len(cs) : cs[i].marker })

\* -------------------------------------------------------------------- state

VARIABLES
  comments,   \* the PR's comments on the server, oldest first
  pull,       \* the PR on the server: head and base repository, head branch
  writes,     \* files committed through the contents API
  started,    \* runs started so far
  run,        \* each run's locals, its calls so far, its output and exit code
  server,     \* the repository: its branches, its default branch's head, the image files
  up          \* each call of uploadImageToImagesBranch: its locals, calls and result

vars == <<comments, pull, writes, started, run, server, up>>

\* the PR as GET pulls/{n} returns it ("" is a head repository that was deleted)
Pull(headRepo, baseRepo, headRef) ==
  [headRepo |-> headRepo, baseRepo |-> baseRepo, headRef |-> headRef]

NoPull == Pull("", "", NoRef)

IdleRun ==
  [pc |-> "idle", variant |-> "", cfg |-> NoCfg, owner |-> <<>>, repo |-> <<>>,
   prNumber |-> 0, pr |-> NoPull, fetched |-> <<>>, existing |-> FALSE,
   structured |-> NoText, imagePrompt |-> Empty, caption |-> Empty,
   image |-> NoImage, put |-> "none", downloadUrl |-> NoUrl, imageUrl |-> NoUrl, body |-> NoBody,
   calls |-> <<>>, warns |-> <<>>, stderr |-> NoErr, exit |-> -1]

\* process.exit(code), or main() returning (code 0), or main().catch (code 1)
Exit(r, code, err) == [r EXCEPT !.pc = "done", !.exit = code, !.stderr = err]

\* the rejection main().catch reports
Failed(call) == [kind |-> "failed", name |-> call, str |-> <<>>]

Called(r, call) == [r EXCEPT !.calls = Append(@, call)]

Outcomes == {"ok", "fail"}

\* ------------------------------------------------------------------ actions

\* a run starts: main() up to its first await of the network
Begin(p, variants, configs) ==
  /\ run[p].pc \in {"idle", "done"}
  /\ started < MaxRuns
  /\ \E v \in variants, cfg \in configs :
       LET ctx == ResolveContext(cfg)
           r   == [IdleRun EXCEPT !.variant = v, !.cfg = cfg]
       IN run' = [run EXCEPT ![p] =
            IF ctx.ok
            THEN [r EXCEPT !.pc = "fetchPr", !.owner = ctx.owner, !.repo = ctx.repo,
                           !.prNumber = ctx.prNumber]
            ELSE Exit(r, 1, ctx.stderr)]
  /\ started' = started + 1
  /\ UNCHANGED <<comments, pull, writes, server, up>>

\* a faulty variant: it tries the request again when it fails
FetchPr_Retry(p, outs) ==
  /\ run[p].pc = "fetchPr"
  /\ \E o \in outs :
       LET r == Called(run[p], "GET pr")
       IN run' = [run EXCEPT ![p] =
            IF o = "ok" THEN [r EXCEPT !.pc = "fetchFiles", !.pr = pull]
            ELSE IF Len(r.calls) < 2 THEN r
            ELSE Exit(r, 1, Failed("GET pr"))]
  /\ UNCHANGED <<comments, pull, writes, started, server, up>>

\* const pr = await fetchJson(`${apiBase}/pulls/${prNumber}`)
FetchPr(p, outs) ==
  /\ run[p].pc = "fetchPr"
  /\ \E o \in outs :
       LET r == Called(run[p], "GET pr")
       IN run' = [run EXCEPT ![p] =
            IF o = "ok" THEN [r EXCEPT !.pc = "fetchFiles", !.pr = pull]
            ELSE Exit(r, 1, Failed("GET pr"))]
  /\ UNCHANGED <<comments, pull, writes, started, server, up>>

\* const files = await fetchJson(`${apiBase}/pulls/${prNumber}/files?per_page=100`)
FetchFiles(p, outs) ==
  /\ run[p].pc = "fetchFiles"
  /\ \E o \in outs :
       LET r == Called(run[p], "GET files")
       IN run' = [run EXCEPT ![p] =
            IF o = "ok" THEN [r EXCEPT !.pc = "fetchComments"]
            ELSE Exit(r, 1, Failed("GET files"))]
  /\ UNCHANGED <<comments, pull, writes, started, server, up>>

\* the comments are fetched and searched for the marker
FetchComments(p, outs) ==
  /\ run[p].pc = "fetchComments"
  /\ \E o \in outs :
       LET r       == Called(run[p], "GET comments")
           fetched == ListComments(comments)
       IN run' = [run EXCEPT ![p] =
            IF o = "fail" THEN Exit(r, 1, Failed("GET comments"))
            ELSE IF FindExisting(fetched)
              THEN Exit([r EXCEPT !.fetched = fetched, !.existing = TRUE], 0, NoErr)
            ELSE [r EXCEPT !.pc = "genText", !.fetched = fetched]]
  /\ UNCHANGED <<comments, pull, writes, started, server, up>>

\* generateText, then the parse of its text
GenerateText(p, texts, outs) ==
  /\ run[p].pc = "genText"
  /\ \E o \in outs, structured \in texts :
       LET r      == Called(run[p], "generateText")
           parsed == ParseStructured(structured)
       IN run' = [run EXCEPT ![p] =
            IF o = "fail" THEN Exit(r, 1, Failed("generateText"))
            ELSE [r EXCEPT !.pc = "genImage", !.structured = structured,
                           !.imagePrompt = parsed.imagePrompt,
                           !.caption = parsed.caption]]
  /\ UNCHANGED <<comments, pull, writes, started, server, up>>

\* openai.images.generate, then the choice of what to do with its answer
GenerateImage(p, images, outs) ==
  /\ run[p].pc = "genImage"
  /\ \E o \in outs, image \in images :
       LET r0 == Called(run[p], "images.generate")
           r  == [r0 EXCEPT !.image = image]
       IN run' = [run EXCEPT ![p] =
            IF o = "fail" THEN Exit(r0, 1, Failed("images.generate"))
            ELSE IF r.variant = "index"
              THEN IF InlineImageUrl(image).kind = "none"
                   THEN Exit(r, 1, Failed("no image"))
                   ELSE [r EXCEPT !.pc = "post", !.imageUrl = InlineImageUrl(image)]
            ELSE IF image.url > 0
              THEN [r EXCEPT !.pc = "post", !.imageUrl = Given("direct", image.url)]
            ELSE IF CanUpload(image, r.pr)
              THEN [r EXCEPT !.pc = "put"]
            ELSE IF image.b64 = 0
              THEN [r EXCEPT !.pc = "post", !.warns = Append(@, "no image")]
            ELSE [r EXCEPT !.pc = "post", !.warns = Append(@, "skip upload")]]
  /\ UNCHANGED <<comments, pull, writes, started, server, up>>

\* part_000: the image is written to the PR head branch; a failure is only a warning
PutContents(p, puts) ==
  /\ run[p].pc = "put"
  /\ \E res \in puts :
       LET r == Called(run[p], "PUT contents")
       IN /\ run' = [run EXCEPT ![p] =
               IF res.ok
               THEN [r EXCEPT !.pc = "post", !.put = "ok", !.downloadUrl = res.downloadUrl,
                       !.imageUrl = DeriveImageUrl(res.downloadUrl, r.owner, r.repo,
                                                   r.pr.headRef, ImgPath(r.prNumber))]
               ELSE [r EXCEPT !.pc = "post", !.put = "failed",
                       !.warns = Append(@, "upload failed")]]
          /\ writes' = IF res.ok THEN writes + 1 ELSE writes
  /\ UNCHANGED <<comments, pull, started, server, up>>

\* the body is composed and posted; the server refuses a body over its limit
PostComment(p, outs) ==
  /\ run[p].pc = "post"
  /\ \E o \in outs :
       LET body == IF run[p].variant = "index"
                   THEN ComposeInline(run[p].caption, run[p].imageUrl)
                   ELSE ComposeFallback(run[p].caption, run[p].imageUrl)
           r    == [Called(run[p], "POST comment") EXCEPT !.body = body]
       IN IF o = "ok" /\ body.len <= CommentMax
          THEN /\ comments' = CreateComment(comments, body)
               /\ run' = [run EXCEPT ![p] = Exit(r, 0, NoErr)]
          ELSE /\ comments' = comments
               /\ run' = [run EXCEPT ![p] = Exit(r, 1, Failed("POST comment"))]
  /\ UNCHANGED <<pull, writes, started, server, up>>

\* --------------------------------------- imageStorage.ts: the images branch

\* the branch names an upload can be pointed at
BranchNames == {"custom", "from-env", "patch-picasso-images"}

\* params.branchName || process.env.PATCH_PICASSO_IMAGE_BRANCH || 'patch-picasso-images'
\* ("" stands for absent)
ResolveBranchName(param, env) ==
  IF param # "" THEN param ELSE IF env # "" THEN env ELSE "patch-picasso-images"

\* the branch name as a string: its length and its escaped characters
BranchRef(name) ==
  IF name = "custom" THEN Ref(6, 0)
  ELSE IF name = "from-env" THEN Ref(8, 0)
  ELSE Ref(20, 0)

\* `https://raw.githubusercontent.com/${owner}/${repo}/refs/heads/${encodeURIComponent(branchName)}/${pathInRepo}`
StorageRawUrl(owner, repo, branchName, path) ==
  Url("raw", RawPrefixLen + Len(owner) + 1 + Len(repo) + 1 + RefsHeadsLen
               + EncodedLen(BranchRef(branchName)) + 1 + path.len,
      owner, repo, BranchRef(branchName), path)

\* the repository on the server: the commit each branch was created at (0: no such
\* branch), the head commit of the default branch, the blob at the image path on
\* each branch (0: no file)
Repo(branches, head, files) == [branches |-> branches, head |-> head, files |-> files]

EmptyRepo == Repo([b \in BranchNames |-> 0], 1, [b \in BranchNames |-> 0])

IdleUpload ==
  [pc |-> "idle", branchName |-> "", branchRead |-> "none", headSha |-> 0,
   createdSha |-> 0, ensured |-> "none", existingSha |-> 0, calls |-> <<>>,
   result |-> "none", url |-> NoUrl, err |-> ""]

\* the promise of uploadImageToImagesBranch rejects with the error of `call`
Reject(u, call) == [u EXCEPT !.pc = "done", !.result = "rejected", !.err = call]

\* how a read of something can end: it is there, it is not, or the request failed
\* for another reason (network, permission, rate limit)
ReadOutcomes(there) == IF there THEN {"ok", "error"} ELSE {"not_found", "error"}

\* uploadImageToImagesBranch is called: the branch name is resolved
UploadBegin(p, params, envs) ==
  /\ up[p].pc = "idle"
  /\ \E param \in params, env \in envs :
       up' = [up EXCEPT ![p] =
         [IdleUpload EXCEPT !.pc = "getBranch", !.branchName = ResolveBranchName(param, env)]]
  /\ UNCHANGED <<comments, pull, writes, started, run, server>>

\* a faulty variant: it goes on to create the branch only when the read said not found
EnsureReadBranch_NotFoundOnly(p) ==
  /\ up[p].pc = "getBranch"
  /\ \E o \in ReadOutcomes(server.branches[up[p].branchName] # 0) :
       LET u == [Called(up[p], "GET branch") EXCEPT !.branchRead = o]
       IN up' = [up EXCEPT ![p] =
            IF o = "ok" THEN [u EXCEPT !.pc = "getContents", !.ensured = "found"]
            ELSE IF o = "not_found" THEN [u EXCEPT !.pc = "getRepo"]
            ELSE Reject(u, "GET branch")]
  /\ UNCHANGED <<comments, pull, writes, started, run, server>>

\* ensureImagesBranch: the branch is read; any failure is taken for its absence
EnsureReadBranch(p) ==
  /\ up[p].pc = "getBranch"
  /\ \E o \in ReadOutcomes(server.branches[up[p].branchName] # 0) :
       LET u == [Called(up[p], "GET branch") EXCEPT !.branchRead = o]
       IN up' = [up EXCEPT ![p] =
            IF o = "ok" THEN [u EXCEPT !.pc = "getContents", !.ensured = "found"]
            ELSE [u EXCEPT !.pc = "getRepo"]]
  /\ UNCHANGED <<comments, pull, writes, started, run, server>>

\* ensureImagesBranch: the repository is read for its default branch's name
EnsureReadRepo(p, outs) ==
  /\ up[p].pc = "getRepo"
  /\ \E o \in outs :
       LET u == Called(up[p], "GET repo")
       IN up' = [up EXCEPT ![p] =
            IF o = "ok" THEN [u EXCEPT !.pc = "getDefault"] ELSE Reject(u, "GET repo")]
  /\ UNCHANGED <<comments, pull, writes, started, run, server>>

\* ensureImagesBranch: the default branch is read for its head commit
EnsureReadDefault(p, outs) ==
  /\ up[p].pc = "getDefault"
  /\ \E o \in outs :
       LET u == Called(up[p], "GET default branch")
       IN up' = [up EXCEPT ![p] =
            IF o = "ok" THEN [u EXCEPT !.pc = "postRef", !.headSha = server.head]
            ELSE Reject(u, "GET default branch")]
  /\ UNCHANGED <<comments, pull, writes, started, run, server>>

\* ensureImagesBranch: the reference is created at the commit read; the server
\* refuses a reference that is already there
EnsureCreateRef(p, outs) ==
  /\ up[p].pc = "postRef"
  /\ \E o \in outs :
       LET u  == Called(up[p], "POST git/refs")
           b  == up[p].branchName
           ok == o = "ok" /\ server.branches[b] = 0
       IN /\ up' = [up EXCEPT ![p] =
               IF ok THEN [u EXCEPT !.pc = "getContents", !.ensured = "created",
                                    !.createdSha = u.headSha]
               ELSE Reject(u, "POST git/refs")]
          /\ server' = IF ok THEN [server EXCEPT !.branches[b] = up[p].headSha] ELSE server
  /\ UNCHANGED <<comments, pull, writes, started, run>>

\* the file is read for its blob sha; any failure is taken for its absence
UploadReadFile(p) ==
  /\ up[p].pc = "getContents"
  /\ \E o \in ReadOutcomes(server.files[up[p].branchName] # 0) :
       LET u == Called(up[p], "GET contents")
       IN up' = [up EXCEPT ![p] =
            [u EXCEPT !.pc = "putContents",
                      !.existingSha = IF o = "ok" THEN server.files[u.branchName] ELSE 0]]
  /\ UNCHANGED <<comments, pull, writes, started, run, server>>

\* the file is written, with the sha read, and the raw URL is returned; the server
\* refuses a write whose sha is not that of the file it holds
UploadWriteFile(p, outs, owner, repo, path) ==
  /\ up[p].pc = "putContents"
  /\ \E o \in outs :
       LET u  == Called(up[p], "PUT contents")
           b  == up[p].branchName
           ok == o = "ok" /\ server.branches[b] # 0 /\ server.files[b] = up[p].existingSha
       IN /\ up' = [up EXCEPT ![p] =
               IF ok THEN [u EXCEPT !.pc = "done", !.result = "resolved",
                                    !.url = StorageRawUrl(owner, repo, b, path)]
               ELSE Reject(u, "PUT contents")]
          /\ server' = IF ok THEN [server EXCEPT !.files[b] = writes + 1] ELSE server
          /\ writes' = IF ok THEN writes + 1 ELSE writes
  /\ UNCHANGED <<comments, pull, started, run>>

\* somebody pushes to the default branch
Push ==
  /\ server.head <= MaxPushes
  /\ server' = [server EXCEPT !.head = @ + 1]
  /\ UNCHANGED <<comments, pull, writes, started, run, up>>

\* ------------------------------------------------------------------- inputs

Variants == {"index", "fallback"}

\* the pull request every run is pointed at
PrNumbers == {0, 7}

BaseCfg == Cfg(TRUE, TRUE, <<"a", "/", "a">>, <<>>, 7, 0, 0)

ConfigsFew ==
  { BaseCfg,
    Cfg(TRUE, TRUE, <<>>, <<"a", "a", "/", "a">>, 0, 0, 7),
    Cfg(TRUE, FALSE, <<"a", "/", "a">>, <<>>, 7, 0, 0) }

ConfigsAll ==
  { Cfg(gt, ok, ar, er, ap, apn, ev) :
      gt \in BOOLEAN, ok \in BOOLEAN, ar \in RepoStrings, er \in {<<>>, <<"a", "/", "a">>},
      ap \in PrNumbers, apn \in PrNumbers, ev \in PrNumbers }

Val(t, n) == [t |-> t, len |-> n]

TextsFew ==
  { Text("object", 60, Val("str", 12), Val("str", 9)),
    Text("prose", 15, Absent, Absent) }

TextsAll ==
  TextsFew \cup
  { Text("prose", PromptMax + 1, Absent, Absent),
    Text("null", 4, Absent, Absent),
    Text("string", 17, Absent, Absent),
    Text("number", 2, Absent, Absent),
    Text("array", 2, Absent, Absent),
    Text("object", PromptMax + CaptionMax + 40, Val("str", PromptMax + 1), Val("str", CaptionMax + 1)),
    Text("object", 30, Val("str", 12), Absent),
    Text("object", 30, Absent, Val("str", 9)),
    Text("object", 40, Val("num", 2), Val("str", 0)) }

ImagesFew == { Image(60, 0), Image(0, 1000) }

ImagesAll ==
  ImagesFew \cup { Image(CommentMax, 0), Image(0, 20 * CommentMax), Image(0, 0), Image(60, 1000) }

Puts ==
  { [ok |-> FALSE, downloadUrl |-> NoUrl],
    [ok |-> TRUE, downloadUrl |-> NoUrl],
    [ok |-> TRUE, downloadUrl |-> Given("download", 95)] }

PullsFew == { Pull("o/r", "o/r", Ref(4, 0)), Pull("f/r", "o/r", Ref(4, 0)) }

PullsAll == PullsFew \cup { Pull("o/r", "o/r", Ref(6, 1)), Pull("", "o/r", Ref(4, 0)) }

Others(n) == [i \in 1..n |-> Other]

\* ----------------------------------------------------------- specifications

InitWith(cs, pulls) ==
  /\ comments \in cs
  /\ pull \in pulls
  /\ writes = 0
  /\ started = 0
  /\ run = [p \in Procs |-> IdleRun]
  /\ server = EmptyRepo
  /\ up = [p \in Procs |-> IdleUpload]

\* one run, every input, on a PR with or without an earlier comment
Init ==
  InitWith({ <<>>, <<Other>>, <<Earlier>>, <<Earlier, Other>>, Others(PerPage),
             Others(PerPage - 1) \o <<Earlier>>, Others(PerPage) \o <<Earlier>> },
           PullsAll)

Next ==
  \E p \in {"r1"} :
    \/ run[p].pc = "idle" /\ Begin(p, Variants, ConfigsFew)
    \/ FetchPr(p, Outcomes)
    \/ FetchFiles(p, Outcomes)
    \/ FetchComments(p, Outcomes)
    \/ GenerateText(p, TextsAll, Outcomes)
    \/ GenerateImage(p, ImagesAll, Outcomes)
    \/ PutContents(p, Puts)
    \/ PostComment(p, Outcomes)

Spec == Init /\ [][Next]_vars

\* one run, every configuration
InitConfig == InitWith({ <<>>, <<Earlier>> }, PullsFew)

NextConfig ==
  \E p \in {"r1"} :
    \/ run[p].pc = "idle" /\ Begin(p, Variants, ConfigsAll)
    \/ FetchPr(p, Outcomes)
    \/ FetchFiles(p, Outcomes)
    \/ FetchComments(p, Outcomes)
    \/ GenerateText(p, TextsFew, Outcomes)
    \/ GenerateImage(p, ImagesFew, Outcomes)
    \/ PutContents(p, Puts)
    \/ PostComment(p, Outcomes)

SpecConfig == InitConfig /\ [][NextConfig]_vars

\* runs one after another: a run starts only when the one before it has ended
InitSeq == InitWith({ <<>>, <<Other>>, Others(PerPage - 1), Others(PerPage) }, PullsFew)

NextSeq ==
  \E p \in {"r1"} :
    \/ Begin(p, Variants, {BaseCfg})
    \/ FetchPr(p, Outcomes)
    \/ FetchFiles(p, Outcomes)
    \/ FetchComments(p, Outcomes)
    \/ GenerateText(p, TextsFew, Outcomes)
    \/ GenerateImage(p, ImagesFew, Outcomes)
    \/ PutContents(p, Puts)
    \/ PostComment(p, Outcomes)

SpecSeq == InitSeq /\ [][NextSeq]_vars

\* two runs at once, each run once
InitConc == InitWith({ <<>>, <<Other>> }, PullsFew)

NextConc ==
  \E p \in Procs :
    \/ run[p].pc = "idle" /\ Begin(p, Variants, {BaseCfg})
    \/ FetchPr(p, Outcomes)
    \/ FetchFiles(p, Outcomes)
    \/ FetchComments(p, Outcomes)
    \/ GenerateText(p, TextsFew, Outcomes)
    \/ GenerateImage(p, ImagesFew, Outcomes)
    \/ PutContents(p, Puts)
    \/ PostComment(p, Outcomes)

SpecConc == InitConc /\ [][NextConc]_vars

\* two calls of uploadImageToImagesBranch on one repository, with pushes in between
InitUpload ==
  /\ InitWith({ <<>> }, { Pull("o/r", "o/r", Ref(4, 0)) })

NextUpload ==
  \/ \E p \in Procs :
       \/ UploadBegin(p, {"", "custom"}, {"", "from-env"})
       \/ EnsureReadBranch(p)
       \/ EnsureReadRepo(p, Outcomes)
       \/ EnsureReadDefault(p, Outcomes)
       \/ EnsureCreateRef(p, Outcomes)
       \/ UploadReadFile(p)
       \/ UploadWriteFile(p, Outcomes, <<"a">>, <<"a">>, ImgPath(7))
  \/ Push

SpecUpload == InitUpload /\ [][NextUpload]_vars

\* runs of the entry point with the head-branch upload, one after another
NextSeqFallback ==
  \E p \in {"r1"} :
    \/ Begin(p, {"fallback"}, {BaseCfg})
    \/ FetchPr(p, Outcomes)
    \/ FetchFiles(p, Outcomes)
    \/ FetchComments(p, Outcomes)
    \/ GenerateText(p, TextsFew, Outcomes)
    \/ GenerateImage(p, ImagesFew, Outcomes)
    \/ PutContents(p, Puts)
    \/ PostComment(p, Outcomes)

SpecSeqFallback == InitSeq /\ [][NextSeqFallback]_vars

\* ------------------------------------------------------------------- claims

HasCall(r, call) == \E i \in 1..Len(r.calls) : r.calls[i] = call

CountCalls(r, call) == Cardinality({ i \in 1..Len(r.calls) : r.calls[i] = call })

\* the run sent a comment to the server
Sent(r) == HasCall(r, "POST comment")

\* base64 came back and no URL
Base64Only(r) == r.image.url = 0 /\ r.image.b64 > 0

MarkerFetched(r) == \E i \in 1..Len(r.fetched) : r.fetched[i].marker

\* C1: a run whose fetched comment list holds a comment with the marker makes no
\* text-generation call, no image-generation call, no contents write and no comment
\* post, and ends with exit code 0.
C1_MarkerSkips ==
  \A p \in Procs :
    MarkerFetched(run[p]) =>
      /\ run[p].pc = "done"
      /\ run[p].exit = 0
      /\ ~HasCall(run[p], "generateText")
      /\ ~HasCall(run[p], "images.generate")
      /\ ~HasCall(run[p], "PUT contents")
      /\ ~HasCall(run[p], "POST comment")

\* a run of either entry point that found the marker behind another comment and stopped
C1_Witness ==
  \E p \in Procs :
    /\ MarkerFetched(run[p])
    /\ Len(run[p].fetched) = PerPage
    /\ ~run[p].fetched[1].marker
    /\ run[p].exit = 0
    /\ run[p].calls = <<"GET pr", "GET files", "GET comments">>

\* C2: with runs one after another on a PR that starts without a marker comment,
\* whenever a run has ended successfully the PR holds at most one comment with the
\* marker, however many other comments it has.
C2_AtMostOneMarker ==
  (run["r1"].pc = "done" /\ run["r1"].exit = 0) => MarkerCount(comments) <= 1

\* C3: base64 without a URL on a PR from a fork: no contents write is attempted, and
\* the comment sent holds the placeholder and no image reference.
C3_ForkGetsPlaceholder ==
  \A p \in Procs :
    (Base64Only(run[p]) /\ run[p].pr.headRepo # run[p].pr.baseRepo) =>
      /\ ~HasCall(run[p], "PUT contents")
      /\ Sent(run[p]) =>
           /\ run[p].body.placeholder
           /\ run[p].body.image.kind = "none"

\* is `a` a subsequence of `b`: the same entries in the same order, some left out
RECURSIVE IsSubSeq(_, _)
IsSubSeq(a, b) ==
  IF a = <<>> THEN TRUE
  ELSE IF b = <<>> THEN FALSE
  ELSE IF a[1] = b[1] THEN IsSubSeq(Tail(a), Tail(b))
  ELSE IsSubSeq(a, Tail(b))

\* the head-branch upload applies: base64 only, head and base repository the same,
\* a head branch name
UploadCase(r) ==
  /\ Base64Only(r)
  /\ r.pr.headRepo # ""
  /\ r.pr.headRepo = r.pr.baseRepo
  /\ r.pr.headRef.len > 0

\* C4 as stated: in the upload case a run that sends its comment has first checked
\* the branch, then written the file, and the comment embeds a raw.githubusercontent.com
\* URL of owner, repository and path.
C4_CheckWriteThenRawUrl ==
  \A p \in Procs :
    (UploadCase(run[p]) /\ Sent(run[p])) =>
      /\ IsSubSeq(<<"GET branch", "PUT contents", "POST comment">>, run[p].calls)
      /\ run[p].body.image.kind = "raw"

\* C4, amended: in the entry point with the head-branch upload, in the upload case, a
\* run that sends its comment has made exactly one contents write, after the image
\* generation and before the post, and no branch check and no branch creation; if
\* the write succeeded the comment embeds the write response's download URL when it
\* has one and else the raw.githubusercontent.com URL built from owner, repository,
\* head branch and path; if the write failed the comment holds the placeholder.
C4_HeadBranchUpload ==
  \A p \in Procs :
    (run[p].variant = "fallback" /\ UploadCase(run[p]) /\ Sent(run[p])) =>
      /\ run[p].calls = <<"GET pr", "GET files", "GET comments", "generateText",
                          "images.generate", "PUT contents", "POST comment">>
      /\ run[p].put \in {"ok", "failed"}
      /\ (run[p].put = "ok" /\ run[p].downloadUrl.kind # "none") =>
           run[p].body.image = run[p].downloadUrl
      /\ (run[p].put = "ok" /\ run[p].downloadUrl.kind = "none") =>
           /\ run[p].body.image.kind = "raw"
           /\ run[p].body.image.owner = run[p].owner
           /\ run[p].body.image.repo = run[p].repo
           /\ run[p].body.image.branch = run[p].pr.headRef
           /\ run[p].body.image.path = ImgPath(run[p].prNumber)
           /\ run[p].body.image.len =
                RawPrefixLen + Len(run[p].owner) + Len(run[p].repo)
                  + EncodedLen(run[p].pr.headRef) + ImgPath(run[p].prNumber).len + 3
      /\ run[p].put = "failed" =>
           /\ run[p].body.image.kind = "none"
           /\ run[p].body.placeholder

\* a run that wrote the image to a head branch whose name needs escaping and posted
\* the raw URL
C4_Witness ==
  \E p \in Procs :
    /\ run[p].variant = "fallback"
    /\ UploadCase(run[p])
    /\ run[p].pr.headRef.esc > 0
    /\ run[p].put = "ok"
    /\ run[p].exit = 0
    /\ run[p].body.image.kind = "raw"
    /\ comments[Len(comments)] = run[p].body

\* C5: the body a run composes and sends is never longer than GitHub's limit for one
\* comment, whatever the lengths of caption, image URL, base64 payload and branch name.
C5_BodyFits ==
  \A p \in Procs : Sent(run[p]) => run[p].body.len <= CommentMax

SlashCount(s) == Cardinality({ i \in 1..Len(s) : s[i] = "/" })

\* a configuration the claim calls invalid
InvalidConfig(cfg) ==
  \/ ~cfg.githubToken
  \/ ~cfg.openaiKey
  \/ OrStr(cfg.argsRepo, cfg.envRepo) = <<>>
  \/ SlashCount(OrStr(cfg.argsRepo, cfg.envRepo)) # 1
  \/ (cfg.argsPr = 0 /\ cfg.argsPrNumber = 0 /\ cfg.eventPr = 0)

\* the error output names what is wrong with the configuration
NamesCause(err, cfg) ==
  \/ err.kind = "missing_env" /\ err.name = "GITHUB_TOKEN" /\ ~cfg.githubToken
  \/ err.kind = "missing_env" /\ err.name = "OPENAI_API_KEY" /\ ~cfg.openaiKey
  \/ err.kind = "missing_repo" /\ OrStr(cfg.argsRepo, cfg.envRepo) = <<>>
  \/ err.kind = "invalid_repo" /\ err.str = OrStr(cfg.argsRepo, cfg.envRepo)
  \/ err.kind = "missing_pr"

\* C6: a run with an invalid configuration (a secret missing, no repository, a
\* repository string without exactly one '/', no PR number) ends with a non-zero exit
\* code before any network call, its error output naming the cause.
C6_InvalidConfigRejected ==
  \A p \in Procs :
    (run[p].pc # "idle" /\ InvalidConfig(run[p].cfg)) =>
      /\ run[p].pc = "done"
      /\ run[p].exit = 1
      /\ run[p].calls = <<>>
      /\ NamesCause(run[p].stderr, run[p].cfg)

\* the text is a JSON object that carries both keys
WellFormed(t) ==
  t.shape = "object" /\ t.imagePrompt.t # "absent" /\ t.caption.t # "absent"

\* the value of a key as a string: a string is itself, a number its digits
KeyText(v, id) ==
  IF v.t = "str" THEN Str(id, v.len) ELSE IF v.t = "num" THEN Str("digits", v.len) ELSE Empty

\* the result is the raw text cut to 800 characters and the default caption
IsFallback(r) ==
  /\ r.imagePrompt = Str("raw", Min(r.structured.raw.len, PromptMax))
  /\ r.caption = Str("default", DefaultCaptionLen)

\* C7 as stated: a JSON object with both keys gives their first 800 and 200
\* characters; every other text, parseable or not, gives the raw text cut to 800
\* characters and the default caption.
C7_MalformedFallsBack ==
  \A p \in Procs :
    run[p].structured.shape # "none" =>
      IF WellFormed(run[p].structured)
      THEN /\ run[p].imagePrompt =
                Str(KeyText(run[p].structured.imagePrompt, "imagePrompt").id,
                    Min(run[p].structured.imagePrompt.len, PromptMax))
           /\ run[p].caption =
                Str(KeyText(run[p].structured.caption, "caption").id,
                    Min(run[p].structured.caption.len, CaptionMax))
      ELSE IsFallback(run[p])

\* C7, amended: only a text that is not parseable as JSON, or that parses to null,
\* gives the raw text cut to 800 characters and the default caption; every other
\* parseable text gives the first 800 characters of its imagePrompt key and the first
\* 200 of its caption key, each taken as the empty string when the key is missing
\* or the value is not an object (a JSON string, number or array).
C7_ParseOrFallback ==
  \A p \in Procs :
    run[p].structured.shape # "none" =>
      /\ run[p].imagePrompt.len <= PromptMax
      /\ run[p].caption.len <= CaptionMax
      /\ IF run[p].structured.shape \in {"prose", "null"}
         THEN IsFallback(run[p])
         ELSE IF run[p].structured.shape = "object"
         THEN /\ run[p].imagePrompt =
                   Str(KeyText(run[p].structured.imagePrompt, "imagePrompt").id,
                       Min(run[p].structured.imagePrompt.len, PromptMax))
              /\ run[p].caption =
                   Str(KeyText(run[p].structured.caption, "caption").id,
                       Min(run[p].structured.caption.len, CaptionMax))
         ELSE run[p].imagePrompt = Empty /\ run[p].caption = Empty

\* a run whose generator text was an object without a caption: the prompt is the
\* key's text, the caption is empty, and the comment went out
C7_Witness ==
  \E p \in Procs :
    /\ run[p].structured.shape = "object"
    /\ run[p].structured.caption.t = "absent"
    /\ run[p].imagePrompt = Str("imagePrompt", 12)
    /\ run[p].caption = Empty
    /\ run[p].exit = 0
    /\ Sent(run[p])

\* the order of the external steps as the claim has it
ClaimedOrder ==
  <<"GET comments", "GET pr", "GET files", "generateText", "images.generate",
    "PUT contents", "POST comment">>

\* the order of the external steps in main()
CodeOrder ==
  <<"GET pr", "GET files", "GET comments", "generateText", "images.generate",
    "PUT contents", "POST comment">>

\* CodeOrder without the contents write, which only the upload case makes
CodeOrderNoWrite ==
  <<"GET pr", "GET files", "GET comments", "generateText", "images.generate",
    "POST comment">>

IsPrefix(a, b) == Len(a) <= Len(b) /\ a = SubSeq(b, 1, Len(a))

\* C8 as stated: the calls of a run follow the order comment list, PR details and
\* files, text, image, contents write, post, each at most once, and the PR details
\* and files are fetched only after the marker check has passed.
C8_CheckThenFetch ==
  \A p \in Procs :
    /\ IsSubSeq(run[p].calls, ClaimedOrder)
    /\ (HasCall(run[p], "GET pr") \/ HasCall(run[p], "GET files")) =>
         (HasCall(run[p], "GET comments") /\ ~MarkerFetched(run[p]))

\* C8, amended: the calls of a run follow the order PR details, changed files,
\* comment list and marker check, text, image, contents write (upload case only),
\* post, each at most once and none skipped; the PR details and the files are always
\* fetched before the marker check.
C8_FetchThenCheck ==
  \A p \in Procs :
    /\ IsPrefix(run[p].calls, CodeOrder) \/ IsPrefix(run[p].calls, CodeOrderNoWrite)
    /\ \A c \in CallNames : CountCalls(run[p], c) <= 1
    /\ HasCall(run[p], "GET comments") =>
         (run[p].calls[1] = "GET pr" /\ run[p].calls[2] = "GET files")

\* a run that made every call, the contents write included, and ended well
C8_Witness ==
  \E p \in Procs :
    /\ run[p].calls = CodeOrder
    /\ run[p].exit = 0
    /\ comments[Len(comments)] = run[p].body

\* the runs that ended after posting their comment
Posted == { p \in Procs : run[p].pc = "done" /\ run[p].exit = 0 /\ Sent(run[p]) }

\* C9: two runs at once on a PR without a marker comment: the marker check is made
\* on the list a run fetched and nothing is checked when it posts, so every run that
\* posts adds a comment of its own; when both fetched before either posted there
\* are two comments with the marker.
C9_EveryPostAddsAComment ==
  /\ MarkerCount(comments) = Cardinality(Posted)
  /\ \A p \in Procs : Sent(run[p]) => ~MarkerFetched(run[p])

\* both runs fetched the same list, both passed the check, both posted: two comments
\* with the marker
C9_Witness ==
  /\ Posted = Procs
  /\ run["r1"].fetched = run["r2"].fetched
  /\ \A p \in Procs : ~run[p].existing /\ run[p].body.marker
  /\ Len(comments) = Len(run["r1"].fetched) + 2
  /\ MarkerCount(comments) = 2

\* C10 as stated: in the entry point with the head-branch upload, a run whose
\* contents write failed has logged a warning and, when it has ended, has posted
\* one comment with marker and placeholder and no image reference, exit code 0.
C10_WriteFailureStillPosts ==
  \A p \in Procs :
    (run[p].variant = "fallback" /\ run[p].put = "failed") =>
      /\ HasCall(run[p], "PUT contents")
      /\ run[p].warns = <<"upload failed">>
      /\ run[p].pc = "done" =>
           /\ run[p].exit = 0
           /\ CountCalls(run[p], "POST comment") = 1
           /\ run[p].body.marker /\ run[p].body.placeholder
           /\ run[p].body.image.kind = "none"
           /\ comments # <<>> /\ comments[Len(comments)] = run[p].body

\* C10, amended: in the entry point with the head-branch upload, a run whose contents
\* write failed has logged a warning and goes on to the post; when it has ended it
\* has sent exactly one comment, with marker and placeholder and no image reference;
\* it ends with exit code 0 and that comment on the PR if the post succeeded, and
\* with exit code 1 and no comment added only if the post itself failed.
C10_WriteFailureIsSoft ==
  \A p \in Procs :
    (run[p].variant = "fallback" /\ run[p].put = "failed") =>
      /\ HasCall(run[p], "PUT contents")
      /\ run[p].warns = <<"upload failed">>
      /\ run[p].pc \in {"post", "done"}
      /\ run[p].pc = "done" =>
           /\ CountCalls(run[p], "POST comment") = 1
           /\ run[p].body.marker /\ run[p].body.placeholder
           /\ run[p].body.image.kind = "none"
           /\ run[p].body.len <= CommentMax
           /\ run[p].exit \in {0, 1}
           /\ run[p].exit = 0 =>
                (comments # <<>> /\ comments[Len(comments)] = run[p].body)
           /\ run[p].exit = 1 => run[p].stderr = Failed("POST comment")

\* a run whose write failed and that posted the placeholder comment and ended well
C10_Witness ==
  \E p \in Procs :
    /\ run[p].variant = "fallback"
    /\ run[p].put = "failed"
    /\ run[p].exit = 0
    /\ run[p].body.placeholder
    /\ comments[Len(comments)] = run[p].body

\* the calls ensureImagesBranch makes when it has to create the branch
EnsureOrder == <<"GET branch", "GET repo", "GET default branch", "POST git/refs">>

\* the branch-existence read of an upload failed, for whatever reason
BranchReadFailed(u) == u.branchRead \in {"not_found", "error"}

MarkerPlaces == { i \in 1..Len(comments) : comments[i].marker }

\* C12: with runs one after another, a run that has the marker comment of an earlier
\* run in its fetched list skips; and once the first comment posted on the PR is
\* one without an image, no later run posts a comment with an image.
C12_PlaceholderIsFinal ==
  /\ \A p \in Procs :
       MarkerFetched(run[p]) => (run[p].pc = "done" /\ run[p].exit = 0 /\ ~Sent(run[p]))
  /\ \A i \in MarkerPlaces :
       ((\A h \in MarkerPlaces : i <= h) /\ comments[i].image.kind = "none") =>
         \A j \in MarkerPlaces : comments[j].image.kind = "none"

====
